---- MODULE Spec2Model ----
(***************************************************************************)
(* git-profile (src/main.rs): named identity profiles kept in the TOML     *)
(* file ~/.git_profiles, the commands new / use / url / author over them,  *)
(* and the git identity (git config user.name / user.email) they read and  *)
(* write.                                                                  *)
(*                                                                         *)
(* Strings are sequences of characters (one-character strings, or a longer *)
(* atom where no operation looks inside it), so that trimming, formatting  *)
(* and escaping are computed.  Option<T> is a sequence of length at most 1.*)
(* The store file is Absent, Corrupt (text that toml::from_str rejects) or *)
(* a TOML document: a function from the top-level keys to tables, a table  *)
(* a function from field names to strings.                                 *)
(***************************************************************************)
EXTENDS Integers, Sequences, FiniteSets, TLC

VARIABLES
    file,       \* contents of ~/.git_profiles
    gitName,    \* git config user.name  (Option<String>)
    gitEmail,   \* git config user.email (Option<String>)
    pc,         \* pc[p]: where process p is: "init", "loaded", "use_email", "done"
    cmd,        \* cmd[p]: the parsed command line (app.args)
    profiles,   \* profiles[p]: app.profiles, the Vec<Profile> loaded at startup
    sel,        \* sel[p]: the profile a handler resolved (Option<Profile>)
    out,        \* out[p]: what the process printed, or the panic that ended it
    accesses    \* the running processes' reads and writes of the file, in order

vars == <<file, gitName, gitEmail, pc, cmd, profiles, sel, out, accesses>>

(***************************************************************************)
(* Bounds and input sets                                                   *)
(***************************************************************************)
\* Longest URL template drawn as an input, in segments (a tag or a literal).
MaxSegments == 3

\* Most profiles in a store document drawn as an input of the round trip.
MaxStoreSize == 3

Procs == {1, 2}

None == <<>>
Some(v) == <<v>>

ProfileNames == {<<"w">>, <<"h">>}
Authors == {<<"A">>, <<"B">>}
\* One plain address and one that ends in a blank, which git config stores
\* and prints as it was given.
Emails == {<<"e">>, <<"f", " ">>}
Usernames == {<<"u">>}
Projects == {<<"x">>}

DefaultUrlSpec ==
    <<"git@github.com:", "{{", "username", "}}", "/", "{{", "project", "}}">>

\* The remote template `new --remote` is given in the command specifications.
Remotes == {<<"{{", "username", "}}", "/", "{{", "project", "}}">>}

EmptyDoc == [k \in {} |-> <<>>]

\* Contents of the store file.
Absent == [kind |-> "absent", doc |-> EmptyDoc]
Corrupt == [kind |-> "corrupt", doc |-> EmptyDoc]
Toml(doc) == [kind |-> "toml", doc |-> doc]

Range(s) == {s[i] : i \in DOMAIN s}

(***************************************************************************)
(* Profile                                                                 *)
(***************************************************************************)
Profile_new(profile_name, author_name, author_email) ==
    [name |-> profile_name, author |-> author_name, email |-> author_email,
     username |-> None, url |-> None]

with_remote_url(profile, remote) == [profile EXCEPT !.url = Some(remote)]

with_username(profile, user) == [profile EXCEPT !.username = Some(user)]

\* Mutant of as_map: the url is never written.
as_map_without_url(profile) ==
    LET keys == {"author", "email"}
                \cup (IF profile.username # None THEN {"username"} ELSE {})
    IN [k \in keys |->
          CASE k = "author" -> profile.author
            [] k = "email" -> profile.email
            [] k = "username" -> profile.username[1]]

\* HashMap<String, String> of the fields present.
as_map(profile) ==
    LET keys == {"author", "email"}
                \cup (IF profile.username # None THEN {"username"} ELSE {})
                \cup (IF profile.url # None THEN {"url"} ELSE {})
    IN [k \in keys |->
          CASE k = "author" -> profile.author
            [] k = "email" -> profile.email
            [] k = "username" -> profile.username[1]
            [] k = "url" -> profile.url[1]]

\* value.try_into::<Profile>() followed by profile.name = key: the serde
\* derive needs author and email, reads username and url when present,
\* ignores every other key, and skips name.
TableOk(table) == {"author", "email"} \subseteq DOMAIN table

profile_from_table(key, table) ==
    [name |-> key, author |-> table["author"], email |-> table["email"],
     username |-> IF "username" \in DOMAIN table
                  THEN Some(table["username"]) ELSE None,
     url |-> IF "url" \in DOMAIN table THEN Some(table["url"]) ELSE None]

(***************************************************************************)
(* The store: parse_profiles / load_profiles / save_profiles               *)
(***************************************************************************)
ValidDoc(doc) == \A k \in DOMAIN doc : TableOk(doc[k])

\* Every order in which a HashMap's iterator may yield the keys.
Orderings(S) ==
    {s \in [1..Cardinality(S) -> S] : \A i, j \in DOMAIN s : i # j => s[i] # s[j]}

\* The Vec<Profile> results parse_profiles can return for a document: the
\* table is collected into a HashMap, whose iteration order is unspecified.
parse_profiles(doc) ==
    {[i \in DOMAIN order |-> profile_from_table(order[i], doc[order[i]])] :
        order \in Orderings(DOMAIN doc)}

\* Ok results of load_profiles; the empty set when loading fails.
load_profiles(f) ==
    IF f.kind = "absent" THEN {<<>>}
    ELSE IF f.kind = "corrupt" \/ ~ValidDoc(f.doc) THEN {}
    ELSE parse_profiles(f.doc)

\* tables.insert(key, table)
insert(tables, key, table) ==
    [k \in DOMAIN tables \cup {key} |-> IF k = key THEN table ELSE tables[k]]

RECURSIVE build_tables(_, _)
build_tables(tables, ps) ==
    IF ps = <<>> THEN tables
    ELSE build_tables(insert(tables, Head(ps).name, as_map(Head(ps))), Tail(ps))

\* Mutant of save_document: only the last profile handed in is written.
save_document_last_only(ps) ==
    IF ps = <<>> THEN EmptyDoc ELSE build_tables(EmptyDoc, <<ps[Len(ps)]>>)

\* The document save_profiles writes for a Vec<&Profile>.
save_document(ps) == build_tables(EmptyDoc, ps)

(***************************************************************************)
(* git_command                                                             *)
(***************************************************************************)
Whitespace == {" ", "\n", "\t"}

RECURSIVE trim_end(_)
trim_end(s) ==
    IF s = <<>> THEN s
    ELSE IF s[Len(s)] \in Whitespace THEN trim_end(SubSeq(s, 1, Len(s) - 1))
    ELSE s

\* stdout of `git config user.email`: the value and a newline, or nothing
\* when the key is unset.
git_stdout(value) == IF value = None THEN <<>> ELSE value[1] \o <<"\n">>

\* git_command(vec!["config", "user.email"])
git_command_get(value) == trim_end(git_stdout(value))

(***************************************************************************)
(* Lookup and default resolution                                           *)
(***************************************************************************)
RECURSIVE find(_, _, _)
\* profiles.iter().find(|p| p.<field> == wanted)
find(ps, field, wanted) ==
    IF ps = <<>> THEN None
    ELSE IF Head(ps)[field] = wanted THEN Some(Head(ps))
    ELSE find(Tail(ps), field, wanted)

\* Mutant of get_profile: a missing name yields the first profile.
get_profile_or_first(ps, profile_name) ==
    IF find(ps, "name", profile_name) # None THEN find(ps, "name", profile_name)
    ELSE IF Len(ps) > 0 THEN Some(ps[1])
    ELSE None

get_profile(ps, profile_name) == find(ps, "name", profile_name)

get_profile_by_email(ps, email) == find(ps, "email", email)

get_profile_in_local_use(ps, email_value) ==
    get_profile_by_email(ps, git_command_get(email_value))

get_default_profile(ps, email_value) ==
    IF get_profile_in_local_use(ps, email_value) # None
    THEN get_profile_in_local_use(ps, email_value)
    ELSE IF Len(ps) > 0 THEN Some(ps[1])
    ELSE None

\* Mutant of with_profile: a named profile that is missing falls back to
\* the default.
with_profile_falling_back(ps, name, email_value) ==
    IF name # None /\ get_profile(ps, name[1]) # None THEN get_profile(ps, name[1])
    ELSE get_default_profile(ps, email_value)

\* The profile with_profile hands to its closure, if any.
with_profile(ps, name, email_value) ==
    IF name # None THEN get_profile(ps, name[1])
    ELSE get_default_profile(ps, email_value)

(***************************************************************************)
(* URL rendering: ramhorns Template::new and Template::render              *)
(***************************************************************************)
\* Index of the first atom a in s, 0 when there is none.
RECURSIVE index_of(_, _, _)
index_of(s, a, i) ==
    IF i > Len(s) THEN 0 ELSE IF s[i] = a THEN i ELSE index_of(s, a, i + 1)

\* Template::new succeeds: every opening "{{" is closed by a later "}}".
RECURSIVE template_ok(_)
template_ok(t) ==
    IF t = <<>> THEN TRUE
    ELSE IF Head(t) = "{{"
         THEN index_of(t, "}}", 2) # 0
              /\ template_ok(SubSeq(t, index_of(t, "}}", 2) + 1, Len(t)))
         ELSE template_ok(Tail(t))

\* A {{variable}} is written HTML-escaped (only {{{variable}}} and
\* {{&variable}} are written as they are).
escape_char(c) ==
    CASE c = "&" -> <<"&", "a", "m", "p", ";">>
      [] c = "<" -> <<"&", "l", "t", ";">>
      [] c = ">" -> <<"&", "g", "t", ";">>
      [] c = "\"" -> <<"&", "q", "u", "o", "t", ";">>
      [] OTHER -> <<c>>

RECURSIVE html_escape(_)
html_escape(s) ==
    IF s = <<>> THEN <<>> ELSE escape_char(Head(s)) \o html_escape(Tail(s))

\* The field of UrlRenderData a tag names; a name that is no field renders
\* as nothing.
field_value(data, tag) ==
    IF tag = <<"username">> THEN data.username
    ELSE IF tag = <<"project">> THEN data.project
    ELSE <<>>

write_variable(data, tag) == html_escape(field_value(data, tag))

RECURSIVE template_render(_, _)
template_render(t, data) ==
    IF t = <<>> THEN <<>>
    ELSE IF Head(t) = "{{"
         THEN LET close == index_of(t, "}}", 2)
              IN write_variable(data, SubSeq(t, 2, close - 1))
                 \o template_render(SubSeq(t, close + 1, Len(t)), data)
         ELSE <<Head(t)>> \o template_render(Tail(t), data)

render_data(profile, project) ==
    [project |-> project,
     username |-> IF profile.username # None THEN profile.username[1] ELSE <<>>]

urlspec(profile) == IF profile.url # None THEN profile.url[1] ELSE DefaultUrlSpec

(***************************************************************************)
(* Command lines: clap's ArgMatches of the subcommand                      *)
(***************************************************************************)
\* sub_matches.value_of(name): None for an argument that was not given and
\* for a name the subcommand does not define.
value_of(matches, name) == IF name \in DOMAIN matches THEN matches[name] ELSE None

Opt(S) == {None} \cup {Some(v) : v \in S}

NoCommand == [sub |-> "", args |-> [k \in {} |-> None]]

NewCommands ==
    {[sub |-> "new",
      args |-> [PROFILE |-> Some(n), AUTHOR |-> Some(a), EMAIL |-> Some(e),
                USERNAME |-> u, URL |-> r]] :
        n \in ProfileNames, a \in Authors, e \in Emails,
        u \in Opt(Usernames), r \in Opt(Remotes)}

UseCommands == {[sub |-> "use", args |-> [PROFILE |-> Some(n)]] : n \in ProfileNames}

UrlCommandsOver(projects) ==
    {[sub |-> "url", args |-> [PROJECT |-> Some(x), PROFILE |-> n]] :
        x \in projects, n \in Opt(ProfileNames)}

AuthorCommands == {[sub |-> "author", args |-> [PROFILE |-> n]] : n \in Opt(ProfileNames)}

Commands == NewCommands \cup UseCommands \cup UrlCommandsOver(Projects) \cup AuthorCommands

(***************************************************************************)
(* Output                                                                  *)
(***************************************************************************)
NoOutput == [kind |-> "none", text |-> <<>>]
Stdout(text) == [kind |-> "stdout", text |-> text]
Panic(msg) == [kind |-> "panic", text |-> <<msg>>]

NotFoundMessage == <<"Couldn't find specified profile, or work out a default">>
CreatedMessage(profile_name) == <<"Profile ">> \o profile_name \o <<" created">>
CreateFailedMessage == <<"Profile create failed: ">>
author_string(profile) == profile.author \o <<" ", "<">> \o profile.email \o <<">">>

(***************************************************************************)
(* Initial states                                                          *)
(***************************************************************************)
\* Tables a user may have written into the store by hand (`edit`).
InitTables ==
    {[author |-> <<"A">>, email |-> <<"e">>],
     [author |-> <<"B">>, email |-> <<"e">>, username |-> <<"u">>],
     [author |-> <<"B">>, email |-> <<"f", " ">>, username |-> <<"u">>,
      url |-> <<"{{", "project", "}}">>]}

DocsOver(names, tables) ==
    UNION {[keys -> tables] : keys \in SUBSET names}

InitFiles ==
    {Absent, Corrupt} \cup {Toml(d) : d \in DocsOver(ProfileNames, InitTables)}

InitProcs ==
    /\ pc = [p \in Procs |-> "init"]
    /\ cmd = [p \in Procs |-> NoCommand]
    /\ profiles = [p \in Procs |-> <<>>]
    /\ sel = [p \in Procs |-> None]
    /\ out = [p \in Procs |-> NoOutput]
    /\ accesses = <<>>

Init ==
    /\ file \in InitFiles
    /\ gitName = None
    /\ gitEmail \in Opt(Emails)
    /\ InitProcs

(***************************************************************************)
(* One invocation of the tool: main                                        *)
(***************************************************************************)
\* GitProfilesApp::new: parse the command line, load the store.  A load
\* error ends the process in main's expect.
Start(p, c) ==
    /\ pc[p] = "init"
    /\ cmd' = [cmd EXCEPT ![p] = c]
    /\ sel' = [sel EXCEPT ![p] = None]
    /\ IF load_profiles(file) = {}
       THEN /\ pc' = [pc EXCEPT ![p] = "done"]
            /\ profiles' = [profiles EXCEPT ![p] = <<>>]
            /\ out' = [out EXCEPT ![p] =
                         Panic("profile loading failed, check your profile config")]
       ELSE /\ \E ps \in load_profiles(file) :
                    profiles' = [profiles EXCEPT ![p] = ps]
            /\ pc' = [pc EXCEPT ![p] = "loaded"]
            /\ out' = [out EXCEPT ![p] = NoOutput]
    /\ accesses' = Append(accesses, <<p, "load">>)
    /\ UNCHANGED <<file, gitName, gitEmail>>

\* The Profile handle_new builds from the arguments main hands it.
new_profile(profile_name, author_name, author_email, username, remote) ==
    LET p0 == Profile_new(profile_name, author_name, author_email)
        p1 == IF username # None THEN with_username(p0, username[1]) ELSE p0
    IN IF remote # None THEN with_remote_url(p1, remote[1]) ELSE p1

\* main's "new" arm: the five values it reads from the matches.
main_new_profile(matches) ==
    new_profile(value_of(matches, "PROFILE")[1],
                value_of(matches, "AUTHOR")[1],
                value_of(matches, "EMAIL")[1],
                value_of(matches, "USER"),
                value_of(matches, "URL"))

\* What a failed save can leave behind: the file as it was (when it was
\* absent it may now exist, empty, which loads the same), or part of the
\* text, after fs::write truncated the file.
SaveFailures(f) == {f, Corrupt}

\* handle_new: the loaded profiles and the new one, saved in full.
HandleNew(p) ==
    /\ pc[p] = "loaded"
    /\ cmd[p].sub = "new"
    /\ LET profile == main_new_profile(cmd[p].args)
           new_profiles == Append(profiles[p], profile)
       IN \/ /\ file' = Toml(save_document(new_profiles))
             /\ out' = [out EXCEPT ![p] = Stdout(CreatedMessage(profile.name))]
          \/ /\ file' \in SaveFailures(file)
             /\ out' = [out EXCEPT ![p] = Stdout(CreateFailedMessage)]
    /\ pc' = [pc EXCEPT ![p] = "done"]
    /\ accesses' = Append(accesses, <<p, "save">>)
    /\ UNCHANGED <<gitName, gitEmail, cmd, profiles, sel>>

\* handle_use, up to its first git call: look the profile up by name, panic
\* when there is none, else git config user.name <author>.
HandleUseName(p) ==
    /\ pc[p] = "loaded"
    /\ cmd[p].sub = "use"
    /\ LET found == get_profile(profiles[p], value_of(cmd[p].args, "PROFILE")[1])
       IN /\ sel' = [sel EXCEPT ![p] = found]
          /\ IF found = None
             THEN /\ out' = [out EXCEPT ![p] = Panic("Could not find target profile")]
                  /\ pc' = [pc EXCEPT ![p] = "done"]
                  /\ UNCHANGED gitName
             ELSE /\ gitName' = Some(found[1].author)
                  /\ pc' = [pc EXCEPT ![p] = "use_email"]
                  /\ UNCHANGED out
    /\ UNCHANGED <<file, gitEmail, cmd, profiles, accesses>>

\* Mutant of HandleUseEmail: the second call writes user.name again.
HandleUseEmailIntoName(p) ==
    /\ pc[p] = "use_email"
    /\ gitName' = Some(sel[p][1].email)
    /\ pc' = [pc EXCEPT ![p] = "done"]
    /\ UNCHANGED <<file, gitEmail, cmd, profiles, sel, out, accesses>>

\* handle_use, its second git call: git config user.email <email>.
HandleUseEmail(p) ==
    /\ pc[p] = "use_email"
    /\ gitEmail' = Some(sel[p][1].email)
    /\ pc' = [pc EXCEPT ![p] = "done"]
    /\ UNCHANGED <<file, gitName, cmd, profiles, sel, out, accesses>>

\* handle_url
HandleUrl(p) ==
    /\ pc[p] = "loaded"
    /\ cmd[p].sub = "url"
    /\ LET found == with_profile(profiles[p], value_of(cmd[p].args, "PROFILE"), gitEmail)
           project == value_of(cmd[p].args, "PROJECT")[1]
       IN /\ sel' = [sel EXCEPT ![p] = found]
          /\ out' = [out EXCEPT ![p] =
                       IF found = None THEN Stdout(NotFoundMessage)
                       ELSE IF ~template_ok(urlspec(found[1]))
                            THEN Panic("Failed to create template from urlspec")
                       ELSE Stdout(template_render(urlspec(found[1]),
                                                   render_data(found[1], project)))]
    /\ pc' = [pc EXCEPT ![p] = "done"]
    /\ UNCHANGED <<file, gitName, gitEmail, cmd, profiles, accesses>>

\* handle_author
HandleAuthor(p) ==
    /\ pc[p] = "loaded"
    /\ cmd[p].sub = "author"
    /\ LET found == with_profile(profiles[p], value_of(cmd[p].args, "PROFILE"), gitEmail)
       IN /\ sel' = [sel EXCEPT ![p] = found]
          /\ out' = [out EXCEPT ![p] =
                       IF found = None THEN Stdout(NotFoundMessage)
                       ELSE Stdout(author_string(found[1]))]
    /\ pc' = [pc EXCEPT ![p] = "done"]
    /\ UNCHANGED <<file, gitName, gitEmail, cmd, profiles, accesses>>

\* The process ends; the next invocation is a new process.
Exit(p) ==
    /\ pc[p] = "done"
    /\ pc' = [pc EXCEPT ![p] = "init"]
    /\ cmd' = [cmd EXCEPT ![p] = NoCommand]
    /\ profiles' = [profiles EXCEPT ![p] = <<>>]
    /\ sel' = [sel EXCEPT ![p] = None]
    /\ out' = [out EXCEPT ![p] = NoOutput]
    /\ accesses' = SelectSeq(accesses, LAMBDA a : a[1] # p)
    /\ UNCHANGED <<file, gitName, gitEmail>>

(***************************************************************************)
(* Spec: invocations one after another, as the tool is meant to be used    *)
(***************************************************************************)
Next ==
    \/ \E c \in Commands : Start(1, c)
    \/ HandleNew(1)
    \/ HandleUseName(1)
    \/ HandleUseEmail(1)
    \/ HandleUrl(1)
    \/ HandleAuthor(1)
    \/ Exit(1)

Spec == Init /\ [][Next]_vars

(***************************************************************************)
(* SpecRace: two processes, each one `new`, with no lock on the file       *)
(***************************************************************************)
\* The racing command lines: every name, author, email and username.
RaceCommands == {c \in NewCommands : c.args["URL"] = None}

InitRace ==
    /\ file \in InitFiles
    /\ gitName = None
    /\ gitEmail = None
    /\ InitProcs

NextRace ==
    \E p \in Procs :
        \/ \E c \in RaceCommands : Start(p, c)
        \/ HandleNew(p)

SpecRace == InitRace /\ [][NextRace]_vars

(***************************************************************************)
(* SpecRuns: two processes resolving the default profile over one store    *)
(***************************************************************************)
DefaultCommands ==
    {c \in UrlCommandsOver(Projects) \cup AuthorCommands : c.args["PROFILE"] = None}

NextRuns ==
    \E p \in Procs :
        \/ \E c \in DefaultCommands : Start(p, c)
        \/ HandleUrl(p)
        \/ HandleAuthor(p)
        \/ Exit(p)

SpecRuns == Init /\ [][NextRuns]_vars

(***************************************************************************)
(* SpecRoundTrip: load, save what was loaded, load again                   *)
(***************************************************************************)
\* The first n names of the list.
RECURSIVE NamesUpTo(_, _)
NamesUpTo(names, n) ==
    IF n = 0 \/ names = <<>> THEN {}
    ELSE {Head(names)} \cup NamesUpTo(Tail(names), n - 1)

RoundTripNames == NamesUpTo(<<<<"w">>, <<"h">>, <<"g">>, <<"k">>, <<"m">>>>, MaxStoreSize)

\* Tables of a hand-written document: the fields in every combination, a
\* key the tool does not know, and a table without the required email.
RoundTripTables ==
    InitTables
    \cup {[k \in {"author", "email", "signingkey"} |-> <<"A">>],
          [k \in {"author"} |-> <<"A">>]}

InitRoundTrip ==
    /\ file \in {Toml(d) : d \in DocsOver(RoundTripNames, RoundTripTables)}
    /\ gitName = None
    /\ gitEmail = None
    /\ InitProcs

\* load_profiles by process 1
RoundTripLoad ==
    /\ pc[1] = "init"
    /\ \E ps \in load_profiles(file) : profiles' = [profiles EXCEPT ![1] = ps]
    /\ pc' = [pc EXCEPT ![1] = "loaded"]
    /\ accesses' = Append(accesses, <<1, "load">>)
    /\ UNCHANGED <<file, gitName, gitEmail, cmd, sel, out>>

\* save_profiles of exactly what process 1 loaded
RoundTripSave ==
    /\ pc[1] = "loaded"
    /\ file' = Toml(save_document(profiles[1]))
    /\ pc' = [pc EXCEPT ![1] = "done"]
    /\ accesses' = Append(accesses, <<1, "save">>)
    /\ UNCHANGED <<gitName, gitEmail, cmd, profiles, sel, out>>

\* load_profiles by process 2, of what process 1 saved
RoundTripReload ==
    /\ pc[1] = "done"
    /\ pc[2] = "init"
    /\ \E ps \in load_profiles(file) : profiles' = [profiles EXCEPT ![2] = ps]
    /\ pc' = [pc EXCEPT ![2] = "loaded"]
    /\ accesses' = Append(accesses, <<2, "load">>)
    /\ UNCHANGED <<file, gitName, gitEmail, cmd, sel, out>>

NextRoundTrip == RoundTripLoad \/ RoundTripSave \/ RoundTripReload

SpecRoundTrip == InitRoundTrip /\ [][NextRoundTrip]_vars

(***************************************************************************)
(* SpecRender: `url` over stores whose one profile holds a drawn template  *)
(***************************************************************************)
Segments ==
    {<<"{{", "username", "}}">>, <<"{{", "project", "}}">>, <<"/">>,
     <<"{{", "project">>}

RECURSIVE Flatten(_)
Flatten(ss) == IF ss = <<>> THEN <<>> ELSE Head(ss) \o Flatten(Tail(ss))

Templates == {Flatten(ss) : ss \in UNION {[1..k -> Segments] : k \in 0..MaxSegments}}

RenderUsernames == {<<"u">>, <<"a", "&", "b">>}
RenderProjects == {<<"x">>, <<"r", "<", "d">>}

RenderProfiles ==
    {[name |-> <<"w">>, author |-> <<"A">>, email |-> <<"e">>,
      username |-> u, url |-> t] :
        u \in Opt(RenderUsernames), t \in Opt(Templates)}

InitRender ==
    /\ file \in {Toml(save_document(<<q>>)) : q \in RenderProfiles}
    /\ gitName = None
    /\ gitEmail = None
    /\ InitProcs

NextRender ==
    \/ \E c \in UrlCommandsOver(RenderProjects) : Start(1, c)
    \/ HandleUrl(1)
    \/ Exit(1)

SpecRender == InitRender /\ [][NextRender]_vars

(***************************************************************************)
(* Shared vocabulary of the properties                                     *)
(***************************************************************************)
Names(ps) == {ps[i].name : i \in DOMAIN ps}

\* The profile named n among ps (names are distinct in a loaded store).
Named(ps, n) == CHOOSE q \in Range(ps) : q.name = n

\* The profile a `new` command line describes.
CommandProfile(args) ==
    [name |-> args["PROFILE"][1], author |-> args["AUTHOR"][1],
     email |-> args["EMAIL"][1], username |-> args["USERNAME"],
     url |-> args["URL"]]

\* Process p ran `new` and reported success.
Created(p) ==
    /\ pc[p] = "done"
    /\ cmd[p].sub = "new"
    /\ out[p] = Stdout(CreatedMessage(cmd[p].args["PROFILE"][1]))

\* Process p is inside `use <name>`, before its last step.
InUse(p) == cmd[p].sub = "use" /\ pc[p] \in {"loaded", "use_email"}

UseTarget(p) == cmd[p].args["PROFILE"][1]

(***************************************************************************)
(* C1: after a `new` whose save succeeded, every load of the store holds a *)
(* profile under the given name whose author, email, username and url are  *)
(* exactly the command line's (username and url absent when not given).    *)
(***************************************************************************)
C1_NewStoresCommandLine ==
    \A p \in Procs :
        Created(p) =>
            /\ load_profiles(file) # {}
            /\ \A ps \in load_profiles(file) :
                   CommandProfile(cmd[p].args) \in Range(ps)

(***************************************************************************)
(* C2: for a valid store document, loading it, saving what was loaded and  *)
(* loading again yields the same records (names, and per name the same     *)
(* author, email, username and url, present or absent), whatever the       *)
(* orders in which the keys were read.                                     *)
(***************************************************************************)
C2_RoundTrip ==
    pc[2] = "loaded" =>
        /\ Range(profiles[2]) = Range(profiles[1])
        /\ Len(profiles[2]) = Len(profiles[1])
        /\ Cardinality(Names(profiles[2])) = Len(profiles[2])

C2_Witness ==
    /\ pc[2] = "loaded"
    /\ Len(profiles[1]) >= 2
    /\ profiles[2] # profiles[1]
    /\ \E q \in Range(profiles[1]) : q.username # None /\ q.url # None
    /\ \E q \in Range(profiles[1]) : q.username = None /\ q.url = None

(***************************************************************************)
(* C3: `use <name>` with a name no loaded profile has aborts, and no step  *)
(* of it changes git's user.name or user.email.                            *)
(***************************************************************************)
C3_UseMissingWritesNothing ==
    [][\A p \in Procs :
          (InUse(p) /\ UseTarget(p) \notin Names(profiles[p]))
              => /\ pc[p] = "loaded"
                 /\ pc'[p] = "done"
                 /\ out'[p].kind = "panic"
                 /\ gitName' = gitName
                 /\ gitEmail' = gitEmail]_vars

C3_Witness ==
    /\ pc[1] = "done"
    /\ cmd[1].sub = "use"
    /\ UseTarget(1) \notin Names(profiles[1])
    /\ profiles[1] # <<>>
    /\ out[1] = Panic("Could not find target profile")

(***************************************************************************)
(* C4: `use <name>` with a name in the store makes two calls, first        *)
(* user.name := the profile's author, then user.email := its email, and    *)
(* leaves the store file and the loaded profiles as they were.             *)
(***************************************************************************)
C4_UseWritesIdentityOnly ==
    [][\A p \in Procs :
          (InUse(p) /\ UseTarget(p) \in Names(profiles[p]))
              => LET q == Named(profiles[p], UseTarget(p))
                 IN /\ file' = file
                    /\ profiles' = profiles
                    /\ pc[p] = "loaded" =>
                          /\ pc'[p] = "use_email"
                          /\ gitName' = Some(q.author)
                          /\ gitEmail' = gitEmail
                    /\ pc[p] = "use_email" =>
                          /\ pc'[p] = "done"
                          /\ gitName = Some(q.author)
                          /\ gitName' = gitName
                          /\ gitEmail' = Some(q.email)]_vars

C4_Witness ==
    /\ pc[1] = "done"
    /\ cmd[1].sub = "use"
    /\ UseTarget(1) \in Names(profiles[1])
    /\ Len(profiles[1]) = 2
    /\ gitName = Some(Named(profiles[1], UseTarget(1)).author)
    /\ gitEmail = Some(Named(profiles[1], UseTarget(1)).email)
    /\ \E q \in Range(profiles[1]) : q.author # gitName[1] /\ q.email # gitEmail[1]

C5_DefaultMatchesConfiguredEmail ==
    \A p \in Procs :
        (/\ pc[p] = "done"
         /\ cmd[p].sub \in {"url", "author"}
         /\ cmd[p].args["PROFILE"] = None
         /\ out[p].kind # "panic"
         /\ gitEmail # None)
            => LET matching == {q \in Range(profiles[p]) : q.email = gitEmail[1]}
               IN /\ matching # {} => sel[p] # None /\ sel[p][1] \in matching
                  /\ (sel[p] # None /\ sel[p][1] \notin matching)
                        => matching = {} /\ sel[p][1] = profiles[p][1]

(***************************************************************************)
(* C7: `url` prints the profile's template (the default template when it   *)
(* has none) with every {{username}} replaced by the profile's username,   *)
(* or by nothing when it has none, and every {{project}} by the project    *)
(* name.  Stated for templates made of text and those two tags.            *)
(***************************************************************************)
RECURSIVE OnlyKnownTags(_)
OnlyKnownTags(t) ==
    IF t = <<>> THEN TRUE
    ELSE IF Head(t) = "{{"
         THEN /\ Len(t) >= 3
              /\ t[2] \in {"username", "project"}
              /\ t[3] = "}}"
              /\ OnlyKnownTags(SubSeq(t, 4, Len(t)))
    ELSE OnlyKnownTags(Tail(t))

RECURSIVE Substituted(_, _, _)
Substituted(t, username, project) ==
    IF t = <<>> THEN <<>>
    ELSE IF Len(t) >= 3 /\ SubSeq(t, 1, 3) = <<"{{", "username", "}}">>
         THEN username \o Substituted(SubSeq(t, 4, Len(t)), username, project)
    ELSE IF Len(t) >= 3 /\ SubSeq(t, 1, 3) = <<"{{", "project", "}}">>
         THEN project \o Substituted(SubSeq(t, 4, Len(t)), username, project)
    ELSE <<Head(t)>> \o Substituted(Tail(t), username, project)

C7_UrlIsLiteralSubstitution ==
    \A p \in Procs :
        (/\ pc[p] = "done"
         /\ cmd[p].sub = "url"
         /\ sel[p] # None
         /\ OnlyKnownTags(urlspec(sel[p][1])))
            => LET q == sel[p][1]
               IN out[p] = Stdout(
                     Substituted(IF q.url # None THEN q.url[1] ELSE DefaultUrlSpec,
                                 IF q.username # None THEN q.username[1] ELSE <<>>,
                                 cmd[p].args["PROJECT"][1]))

(***************************************************************************)
(* C8: a loaded store never holds two profiles of one name; and after a    *)
(* `new` for a name the store already had, the document holds one entry    *)
(* for that name, with the fields of this `new`, and every profile of      *)
(* another name as it was.                                                 *)
(***************************************************************************)
C8_LastNewWins ==
    \A p \in Procs :
        /\ Cardinality(Names(profiles[p])) = Len(profiles[p])
        /\ (Created(p) /\ cmd[p].args["PROFILE"][1] \in Names(profiles[p]))
              => LET n == cmd[p].args["PROFILE"][1]
                 IN /\ file.kind = "toml"
                    /\ DOMAIN file.doc = Names(profiles[p])
                    /\ profile_from_table(n, file.doc[n]) = CommandProfile(cmd[p].args)
                    /\ \A q \in Range(profiles[p]) :
                          q.name # n => profile_from_table(q.name, file.doc[q.name]) = q

(***************************************************************************)
(* C9: two processes run `new` with different names and no lock.  When     *)
(* both loaded before either saved, the file ends as the later saver's     *)
(* document (what it loaded plus its own profile) and the earlier saver's  *)
(* write is lost; when the later saver loaded after the earlier one saved, *)
(* the file ends with both new profiles.                                   *)
(***************************************************************************)
Pos(p, kind) == CHOOSE i \in DOMAIN accesses : accesses[i] = <<p, kind>>

NewName(p) == cmd[p].args["PROFILE"][1]

\* The profile process p built and appended to what it had loaded.
Appended(p) == main_new_profile(cmd[p].args)

BothCreated == Created(1) /\ Created(2) /\ NewName(1) # NewName(2)

LaterSaver == IF Pos(1, "save") > Pos(2, "save") THEN 1 ELSE 2
EarlierSaver == 3 - LaterSaver

BothLoadedFirst == BothCreated /\ Pos(LaterSaver, "load") < Pos(EarlierSaver, "save")

C9_LastWriterWins ==
    BothCreated =>
        /\ file.kind = "toml"
        /\ BothLoadedFirst =>
              /\ DOMAIN file.doc = Names(profiles[LaterSaver]) \cup {NewName(LaterSaver)}
              /\ \A n \in DOMAIN file.doc :
                    profile_from_table(n, file.doc[n]) =
                        IF n = NewName(LaterSaver)
                        THEN Appended(LaterSaver)
                        ELSE Named(profiles[LaterSaver], n)
              /\ NewName(EarlierSaver) \notin Names(profiles[LaterSaver])
                    => NewName(EarlierSaver) \notin DOMAIN file.doc
        /\ ~BothLoadedFirst =>
              \A p \in Procs :
                  /\ NewName(p) \in DOMAIN file.doc
                  /\ profile_from_table(NewName(p), file.doc[NewName(p)]) = Appended(p)

C9_Witness ==
    /\ BothLoadedFirst
    /\ profiles[LaterSaver] # <<>>
    /\ NewName(EarlierSaver) \notin DOMAIN file.doc
    /\ NewName(LaterSaver) \in DOMAIN file.doc

(***************************************************************************)
(* C10: for one store file and one configured user.email, any two runs of  *)
(* `author` or `url` without a profile name resolve the same profile.      *)
(***************************************************************************)
C10_DefaultIsDeterministic ==
    (/\ pc[1] = "done" /\ out[1].kind # "panic"
     /\ pc[2] = "done" /\ out[2].kind # "panic")
        => sel[1] = sel[2]

====
